---- MODULE Spec2Model ----
(***************************************************************************)
(* Community detection and maintenance of graphiti_core:                   *)
(*   utils/maintenance/community_operations.py                             *)
(*                                                                         *)
(* Two state machines share this module.                                   *)
(*   Spec        build_communities: projection, clustering, the concurrent *)
(*               build_community tasks with their rounds of concurrent     *)
(*               summarize_pair calls, and destroy_projection.             *)
(*   SpecUpdate  update_community / determine_entity_community against a   *)
(*               store of community nodes, HAS_MEMBER and RELATES_TO edges.*)
(*                                                                         *)
(* Texts are symbolic terms: <<"a">> is an entity summary, <<>> the empty  *)
(* string, <<"pair", l, r>> the language model's summary of the pair       *)
(* (l, r), <<"name", s>> its description of s, <<"emb", n>> the embedding  *)
(* of the name n.                                                          *)
(***************************************************************************)
EXTENDS Integers, Sequences, FiniteSets, TLC

\* ------------------------------------------------------------------ bounds
\* Largest number of entities the clustering step returns.
MaxEntities == 5
\* Largest number of clusters the clustering step returns.
MaxClusters == 2

\* ------------------------------------------------------------------ texts
Letter == <<"a", "b", "c", "d", "e", "f", "g", "h">>

\* The empty string.
Empty == <<>>

\* EntityNode records: uuid, group_id, summary.
EntityNode(i) ==
    [uuid |-> i,
     group_id |-> IF i % 2 = 1 THEN "g1" ELSE "g2",
     summary |-> <<Letter[i]>>]

\* Python's s[a:b] on a list, with 0-based a (inclusive) and b (exclusive).
Slice(s, a, b) == SubSeq(s, a + 1, b)

\* Python's zip(s, t): as long as the shorter argument.
Zip(s, t) ==
    LET n == IF Len(s) < Len(t) THEN Len(s) ELSE Len(t)
    IN  [i \in 1..n |-> <<s[i], t[i]>>]

\* The texts summarize_pair can return for the pair (l, r): the model's
\* 'summary' field, or '' when the response carries none.
summarize_pair(l, r) == {<<"pair", l, r>>, Empty}

\* The texts generate_summary_description can return for a summary.
generate_summary_description(s) == {<<"name", s>>, Empty}

\* RoundPairs as a neighbour pairing would have it: (0,1), (2,3), ...
RoundPairsAdjacent(summaries, length) ==
    [i \in 1..(length \div 2) |-> <<summaries[2 * i - 1], summaries[2 * i]>>]

\* The pairs one round of build_community hands to summarize_pair:
\* zip(summaries[:length/2], summaries[length/2:]).
RoundPairs(summaries, length) ==
    Zip(Slice(summaries, 0, length \div 2),
        Slice(summaries, length \div 2, Len(summaries)))

\* build_community_edges: one HAS_MEMBER edge per entity of the cluster.
build_community_edges(cluster, node, now) ==
    [i \in 1..Len(cluster) |->
        [source_uuid |-> node.uuid,
         target_uuid |-> cluster[i].uuid,
         group_id |-> node.group_id,
         created_at |-> now]]

\* ------------------------------------------------------------------ state
VARIABLES
    bpc,            \* build_communities: where the call is
    projLive,       \* the "communities" projection exists in the store
    projBuilt,      \* build_community_projection has succeeded
    destroyCalls,   \* calls of destroy_projection made by build_communities
    clusters,       \* community_clusters: sequence of sequences of EntityNode
    tasks,          \* one build_community task per cluster
    aggregate       \* community_nodes and community_edges of build_communities

bvars == <<bpc, projLive, projBuilt, destroyCalls, clusters, tasks, aggregate>>

VARIABLES
    communities,    \* store: community uuid -> Community node
    hasMember,      \* store: <<community uuid, entity uuid>> -> number of HAS_MEMBER edges
    relatesTo,      \* store: <<source, target>> entity uuids -> number of RELATES_TO edges
    procs,          \* the update_community callers that exist
    pc,             \* where each caller's update_community call is
    loc,            \* each call's local variables
    effects,        \* each call's external calls, in the order it made them
    pre,            \* the store as each call found it
    ncalls,         \* update_community calls each caller has made so far
    target          \* the entity each caller calls update_community for

uvars == <<communities, hasMember, relatesTo, procs, pc, loc, effects, pre, ncalls,
           target>>

VARIABLES
    rpc             \* the caller of a full rebuild: where it is

rvars == <<rpc>>
vars == <<bvars, uvars, rvars>>

\* The clusterings get_community_clusters can return: the entities 1..n cut
\* into at most MaxClusters consecutive groups, and the same with a last
\* cluster for which EntityNode.get_by_uuids returned no node.
RECURSIVE Cuts(_, _, _)
Cuts(from, n, k) ==
    IF from > n THEN {<<>>}
    ELSE IF k = 0 THEN {}
    ELSE UNION {
        {<<[i \in 1..(to - from + 1) |-> EntityNode(from + i - 1)]>> \o rest :
            rest \in Cuts(to + 1, n, k - 1)} : to \in from..n}

Clusterings ==
    UNION {Cuts(1, n, MaxClusters) : n \in 1..MaxEntities}
    \cup {Append(cl, <<>>) :
             cl \in UNION {Cuts(1, n, MaxClusters - 1) : n \in 0..MaxEntities}}

\* A build_community task that has not run yet.
NewTask(cluster) ==
    [pc |-> "loop",
     cluster |-> cluster,
     summaries |-> [i \in 1..Len(cluster) |-> cluster[i].summary],
     length |-> Len(cluster),
     odd_one_out |-> <<>>,      \* <<>> is None, <<s>> the summary s
     calls |-> <<>>,            \* this round's summarize_pair calls
     rounds |-> <<>>,           \* history: one record per finished round
     started |-> 0,             \* summarize_pair calls started
     input |-> <<>>,            \* the summaries the current round began with
     summary |-> Empty,         \* summaries[0] after the loop
     names |-> <<>>,            \* inputs of generate_summary_description
     node |-> <<>>,             \* <<CommunityNode>> once constructed
     edges |-> <<>>]

BInit ==
    /\ bpc = "start"
    /\ projLive = FALSE
    /\ projBuilt = FALSE
    /\ destroyCalls = 0
    /\ clusters = <<>>
    /\ tasks = <<>>
    /\ aggregate = [nodes |-> <<>>, edges |-> <<>>]

\* build_community_round that summarizes the first two summaries only and
\* carries all the others to the next round.
build_community_round_first_pair(t) ==
    LET popped == SubSeq(t.summaries, 1, 2)
        pairs == RoundPairs(popped, 2)
    IN  [t EXCEPT
            !.pc = "gather",
            !.odd_one_out = SubSeq(t.summaries, 3, Len(t.summaries)),
            !.summaries = popped,
            !.length = 2,
            !.calls = [i \in 1..Len(pairs) |->
                          [pair |-> pairs[i], st |-> "running", res |-> Empty]],
            !.started = @ + Len(pairs),
            !.input = t.summaries]

\* build_community_round with the odd element popped and forgotten.
build_community_round_drop_odd(t) ==
    LET odd == t.length % 2 = 1
        popped == IF odd THEN SubSeq(t.summaries, 1, Len(t.summaries) - 1)
                         ELSE t.summaries
        length == IF odd THEN t.length - 1 ELSE t.length
        pairs == RoundPairs(popped, length)
    IN  [t EXCEPT
            !.pc = "gather",
            !.odd_one_out = <<>>,
            !.summaries = popped,
            !.length = length,
            !.calls = [i \in 1..Len(pairs) |->
                          [pair |-> pairs[i], st |-> "running", res |-> Empty]],
            !.started = @ + Len(pairs),
            !.input = t.summaries]

\* Lines 93-105 of build_community: set the odd element aside and start one
\* summarize_pair call per pair of the round.
build_community_round(t) ==
    LET odd == t.length % 2 = 1
        popped == IF odd THEN SubSeq(t.summaries, 1, Len(t.summaries) - 1)
                         ELSE t.summaries
        length == IF odd THEN t.length - 1 ELSE t.length
        pairs == RoundPairs(popped, length)
    IN  [t EXCEPT
            !.pc = "gather",
            !.odd_one_out = IF odd THEN <<t.summaries[Len(t.summaries)]>> ELSE <<>>,
            !.summaries = popped,
            !.length = length,
            !.calls = [i \in 1..Len(pairs) |->
                          [pair |-> pairs[i], st |-> "running", res |-> Empty]],
            !.started = @ + Len(pairs),
            !.input = t.summaries]

\* build_community_join with the odd element put first instead of last.
build_community_join_prepend(t) ==
    LET results == [i \in 1..Len(t.calls) |-> t.calls[i].res]
        new_summaries == t.odd_one_out \o results
    IN  [t EXCEPT
            !.pc = "loop",
            !.summaries = new_summaries,
            !.length = Len(new_summaries),
            !.calls = <<>>,
            !.rounds = Append(@, [input |-> t.input,
                                  odd_one_out |-> t.odd_one_out,
                                  pairs |-> [i \in 1..Len(t.calls) |-> t.calls[i].pair],
                                  results |-> results,
                                  output |-> new_summaries])]

\* Lines 97-110 of build_community, once every call of the round has
\* returned: the results in call order, then the odd element.
build_community_join(t) ==
    LET results == [i \in 1..Len(t.calls) |-> t.calls[i].res]
        new_summaries == results \o t.odd_one_out
    IN  [t EXCEPT
            !.pc = "loop",
            !.summaries = new_summaries,
            !.length = Len(new_summaries),
            !.calls = <<>>,
            !.rounds = Append(@, [input |-> t.input,
                                  odd_one_out |-> t.odd_one_out,
                                  pairs |-> [i \in 1..Len(t.calls) |-> t.calls[i].pair],
                                  results |-> results,
                                  output |-> new_summaries])]

\* Lines 114-122 of build_community: the community node and its edges.
NewUuid == <<"n1", "n2", "n3", "n4">>

\* CommunityNode with the name passed as the summary.
CommunityNodeNameAsSummary(k, t, name, now) ==
    [uuid |-> NewUuid[k],
     name |-> name,
     name_embedding |-> <<>>,
     group_id |-> t.cluster[1].group_id,
     created_at |-> now,
     summary |-> name]

CommunityNode(k, t, name, now) ==
    [uuid |-> NewUuid[k],
     name |-> name,
     name_embedding |-> <<>>,
     group_id |-> t.cluster[1].group_id,
     created_at |-> now,
     summary |-> t.summary]

RECURSIVE Flatten(_)
Flatten(ss) == IF ss = <<>> THEN <<>> ELSE Head(ss) \o Flatten(Tail(ss))

\* ------------------------------------------------ build_communities steps
\* Line 132: build_community_projection succeeds or raises.
B_Project ==
    /\ bpc = "start"
    /\ \E ok \in BOOLEAN :
          IF ok
          THEN /\ projLive' = TRUE
               /\ projBuilt' = TRUE
               /\ bpc' = "projected"
          ELSE /\ bpc' = "raised"
               /\ UNCHANGED <<projLive, projBuilt>>
    /\ UNCHANGED <<destroyCalls, clusters, tasks, aggregate>>
    /\ UNCHANGED <<uvars, rvars>>

\* Line 133: get_community_clusters returns the clusters or raises; on
\* success line 136 starts one build_community task per cluster.
B_Clusters ==
    /\ bpc = "projected"
    /\ \E ok \in BOOLEAN :
          IF ok
          THEN \E cl \in Clusterings :
                 /\ clusters' = cl
                 /\ tasks' = [k \in 1..Len(cl) |-> NewTask(cl[k])]
                 /\ bpc' = "gather"
          ELSE /\ bpc' = "raised"
               /\ UNCHANGED <<clusters, tasks>>
    /\ UNCHANGED <<projLive, projBuilt, destroyCalls, aggregate>>
    /\ UNCHANGED <<uvars, rvars>>

\* Lines 92-105: one more round of a build_community task.
BC_Round(k) ==
    /\ tasks[k].pc = "loop"
    /\ tasks[k].length > 1
    /\ tasks' = [tasks EXCEPT ![k] = build_community_round(@)]
    /\ UNCHANGED <<bpc, projLive, projBuilt, destroyCalls, clusters, aggregate>>
    /\ UNCHANGED <<uvars, rvars>>

\* Lines 62-72: one summarize_pair call returns a text or raises.
BC_Pair(k, i) ==
    /\ tasks[k].calls[i].st = "running"
    /\ \/ \E r \in summarize_pair(tasks[k].calls[i].pair[1], tasks[k].calls[i].pair[2]) :
            tasks' = [tasks EXCEPT ![k].calls[i] = [@ EXCEPT !.st = "done", !.res = r]]
       \/ tasks' = [tasks EXCEPT ![k].calls[i].st = "failed"]
    /\ UNCHANGED <<bpc, projLive, projBuilt, destroyCalls, clusters, aggregate>>
    /\ UNCHANGED <<uvars, rvars>>

\* gather that returns as soon as one call has returned.
gather_returns_first_done(calls) ==
    \E i \in 1..Len(calls) : calls[i].st = "done"

\* Line 98: asyncio.gather returns once every call it was given has returned.
gather_returns(calls) ==
    \A i \in 1..Len(calls) : calls[i].st = "done"

\* Lines 97-110: the round's gather returns and the results are joined.
BC_Join(k) ==
    /\ tasks[k].pc = "gather"
    /\ gather_returns(tasks[k].calls)
    /\ tasks' = [tasks EXCEPT ![k] = build_community_join(@)]
    /\ UNCHANGED <<bpc, projLive, projBuilt, destroyCalls, clusters, aggregate>>
    /\ UNCHANGED <<uvars, rvars>>

\* Line 98: asyncio.gather raises as soon as one call of the round has
\* raised; the other calls of the round are not cancelled.
BC_GatherRaise(k) ==
    /\ tasks[k].pc = "gather"
    /\ \E i \in 1..Len(tasks[k].calls) : tasks[k].calls[i].st = "failed"
    /\ tasks' = [tasks EXCEPT ![k].pc = "failed"]
    /\ UNCHANGED <<bpc, projLive, projBuilt, destroyCalls, clusters, aggregate>>
    /\ UNCHANGED <<uvars, rvars>>

\* Lines 112-113: summaries[0] (an IndexError on an empty list), then the
\* call of generate_summary_description.
BC_Summary(k) ==
    /\ tasks[k].pc = "loop"
    /\ tasks[k].length <= 1
    /\ IF Len(tasks[k].summaries) = 0
       THEN tasks' = [tasks EXCEPT ![k].pc = "failed"]
       ELSE tasks' = [tasks EXCEPT ![k].pc = "naming",
                                   ![k].summary = tasks[k].summaries[1],
                                   ![k].names = Append(@, tasks[k].summaries[1])]
    /\ UNCHANGED <<bpc, projLive, projBuilt, destroyCalls, clusters, aggregate>>
    /\ UNCHANGED <<uvars, rvars>>

\* Lines 113-126: generate_summary_description returns or raises; on
\* success the node and the edges are constructed and returned.
BC_Name(k) ==
    /\ tasks[k].pc = "naming"
    /\ \/ \E name \in generate_summary_description(tasks[k].summary) :
            LET node == CommunityNode(k, tasks[k], name, "now")
            IN  tasks' = [tasks EXCEPT
                    ![k].pc = "done",
                    ![k].node = <<node>>,
                    ![k].edges = build_community_edges(tasks[k].cluster, node, "now")]
       \/ tasks' = [tasks EXCEPT ![k].pc = "failed"]
    /\ UNCHANGED <<bpc, projLive, projBuilt, destroyCalls, clusters, aggregate>>
    /\ UNCHANGED <<uvars, rvars>>

\* Lines 135-145: every build_community task has returned; flatten.
B_Aggregate ==
    /\ bpc = "gather"
    /\ \A k \in 1..Len(tasks) : tasks[k].pc = "done"
    /\ aggregate' = [nodes |-> [k \in 1..Len(tasks) |-> tasks[k].node[1]],
                     edges |-> Flatten([k \in 1..Len(tasks) |-> tasks[k].edges])]
    /\ bpc' = "destroy"
    /\ UNCHANGED <<projLive, projBuilt, destroyCalls, clusters, tasks>>
    /\ UNCHANGED <<uvars, rvars>>

\* Line 136: asyncio.gather raises as soon as one build_community task has
\* raised; build_communities has no handler, so the exception leaves it.
B_GatherRaise ==
    /\ bpc = "gather"
    /\ \E k \in 1..Len(tasks) : tasks[k].pc = "failed"
    /\ bpc' = "raised"
    /\ UNCHANGED <<projLive, projBuilt, destroyCalls, clusters, tasks, aggregate>>
    /\ UNCHANGED <<uvars, rvars>>

\* Lines 147-148 and 32-38: destroy_projection drops the projection and
\* build_communities returns, or the query raises.
B_Destroy ==
    /\ bpc = "destroy"
    /\ destroyCalls' = destroyCalls + 1
    /\ \E ok \in BOOLEAN :
          IF ok
          THEN /\ projLive' = FALSE
               /\ bpc' = "returned"
          ELSE /\ bpc' = "raised"
               /\ UNCHANGED projLive
    /\ UNCHANGED <<projBuilt, clusters, tasks, aggregate>>
    /\ UNCHANGED <<uvars, rvars>>

\* ------------------------------------------------------------ the store
\* Largest number of entities related to the entity update_community is
\* called for.
NumNeighbours == 3
\* Largest number of RELATES_TO edges between two entities.
MaxMult == 2
\* Largest number of update_community calls one caller makes.
MaxCalls == 1

\* The entity update_community is called for, and the other entities.
Target == 1
UEntities == 1..(1 + NumNeighbours)
CommUuids == <<"Y", "Z">>
Callers == {"p1", "p2"}

\* The community nodes the store starts with.
StoredCommunity(u) ==
    LET text == IF u = "Y" THEN <<"y">> ELSE <<"z">>
    IN  [uuid |-> u,
         name |-> <<"name", text>>,
         name_embedding |-> <<"emb", <<"name", text>>>>,
         group_id |-> IF u = "Y" THEN "g1" ELSE "g2",
         created_at |-> "t0",
         summary |-> text]

RECURSIVE SumOver(_, _)
SumOver(S, f) ==
    IF S = {} THEN 0
    ELSE LET x == CHOOSE y \in S : TRUE IN f[x] + SumOver(S \ {x}, f)

Range(s) == {s[i] : i \in 1..Len(s)}

\* RELATES_TO edges between m and n, in either direction.
Rel(rel, m, n) == IF m = n THEN rel[<<m, n>>] ELSE rel[<<m, n>>] + rel[<<n, m>>]

\* Lines 162-174, the first query: one record per path
\* (c:Community)-[:HAS_MEMBER]->(n); the communities that have one.
DirectCommunities(hm, comms, n) == {c \in DOMAIN comms : hm[<<c, n>>] > 0}

\* Lines 180-192, the second query: one record per path
\* (c:Community)-[:HAS_MEMBER]->(m:Entity)-[:RELATES_TO]-(n); the number of
\* records that carry community c.
NeighbourRecords(hm, rel, comms, n, c) ==
    SumOver(UEntities, [m \in UEntities |-> hm[<<c, m>>] * Rel(rel, m, n)])

\* The orders in which the store can return the second query's records.
NeighbourResults(hm, rel, comms, n) ==
    LET total == SumOver(DOMAIN comms,
                         [c \in DOMAIN comms |-> NeighbourRecords(hm, rel, comms, n, c)])
    IN  {[i \in 1..total |-> comms[order[i]]] :
            order \in {o \in [1..total -> DOMAIN comms] :
                \A c \in DOMAIN comms :
                    Cardinality({i \in 1..total : o[i] = c})
                        = NeighbourRecords(hm, rel, comms, n, c)}}

\* Lines 198-200: community_map, a dict; its keys in insertion order ...
RECURSIVE community_map_keys(_)
community_map_keys(recs) ==
    IF recs = <<>> THEN <<>>
    ELSE LET front == community_map_keys(SubSeq(recs, 1, Len(recs) - 1))
             uuid == recs[Len(recs)].uuid
         IN  IF uuid \in Range(front) THEN front ELSE Append(front, uuid)

\* ... and its values.
community_map(recs, uuid) == Cardinality({i \in 1..Len(recs) : recs[i].uuid = uuid})

\* Exceeds with >= for >: an equal count replaces the maximum too.
ExceedsOrEquals(count, max_count) == count >= max_count

\* Line 205: whether a count replaces the maximum so far.
Exceeds(count, max_count) == count > max_count

\* Lines 202-207: the scan for the mode; <<community_uuid, max_count>>, with
\* community_uuid <<>> for None.
RECURSIVE ModeScan(_, _, _, _)
ModeScan(keys, recs, community_uuid, max_count) ==
    IF keys = <<>> THEN <<community_uuid, max_count>>
    ELSE LET count == community_map(recs, Head(keys))
         IN  IF Exceeds(count, max_count)
             THEN ModeScan(Tail(keys), recs, <<Head(keys)>>, count)
             ELSE ModeScan(Tail(keys), recs, community_uuid, max_count)

\* AlreadyMember with the flag of a new member.
AlreadyMemberAsNew(record) == [community |-> <<record>>, is_new |-> TRUE]

\* Lines 176-177: the entity is already a member.
AlreadyMember(record) == [community |-> <<record>>, is_new |-> FALSE]

\* ModeCommunity with the flag of a new member when nothing was voted.
ModeCommunityNoneAsNew(recs) ==
    LET mode == ModeScan(community_map_keys(recs), recs, <<>>, 0)
    IN  IF mode[2] = 0
        THEN [community |-> <<>>, is_new |-> TRUE]
        ELSE LET first == CHOOSE i \in 1..Len(recs) :
                              /\ recs[i].uuid = mode[1][1]
                              /\ \A j \in 1..(i - 1) : recs[j].uuid # mode[1][1]
             IN  [community |-> <<recs[first]>>, is_new |-> TRUE]

\* Lines 194-216: the result of determine_entity_community from the second
\* query's records.
ModeCommunity(recs) ==
    LET mode == ModeScan(community_map_keys(recs), recs, <<>>, 0)
    IN  IF mode[2] = 0
        THEN [community |-> <<>>, is_new |-> FALSE]
        ELSE LET first == CHOOSE i \in 1..Len(recs) :
                              /\ recs[i].uuid = mode[1][1]
                              /\ \A j \in 1..(i - 1) : recs[j].uuid # mode[1][1]
             IN  [community |-> <<recs[first]>>, is_new |-> TRUE]

\* CommunityNode.generate_name_embedding: the embedding of the name.
generate_name_embedding(node) == [node EXCEPT !.name_embedding = <<"emb", node.name>>]

\* CommunityNode.save: upsert of the node under its uuid.
save_community(comms, node) ==
    [u \in DOMAIN comms \cup {node.uuid} |-> IF u = node.uuid THEN node ELSE comms[u]]

\* CommunityEdge.save: one more HAS_MEMBER edge.
save_edge(hm, edge) ==
    LET key == <<edge.source_uuid, edge.target_uuid>>
    IN  [k \in DOMAIN hm \cup {key} |->
            IF k # key THEN hm[k]
            ELSE IF key \in DOMAIN hm THEN hm[key] + 1 ELSE 1]

\* remove_communities that deletes the community nodes and leaves their
\* edges in the store.
remove_communities_keep_edges(comms, hm) ==
    [communities |-> [u \in {} |-> StoredCommunity(u)],
     hasMember |-> hm]

\* Lines 151-155: MATCH (c:Community) DETACH DELETE c deletes every community
\* node and, with each node, the edges attached to it.
remove_communities(comms, hm) ==
    [communities |-> [u \in {} |-> StoredCommunity(u)],
     hasMember |-> [k \in {j \in DOMAIN hm : j[1] \notin DOMAIN comms} |-> hm[k]]]

RECURSIVE save_all_nodes(_, _)
save_all_nodes(comms, nodes) ==
    IF nodes = <<>> THEN comms
    ELSE save_all_nodes(save_community(comms, Head(nodes)), Tail(nodes))

RECURSIVE save_all_edges(_, _)
save_all_edges(hm, edges) ==
    IF edges = <<>> THEN hm
    ELSE save_all_edges(save_edge(hm, Head(edges)), Tail(edges))

\* ------------------------------------------------- update_community steps
NoCall ==
    [entity |-> EntityNode(Target),
     determined |-> FALSE,      \* determine_entity_community has returned
     direct |-> FALSE,          \* ... from its first query
     community |-> <<>>,        \* <<>> is None, <<node>> the community
     is_new |-> FALSE,
     records |-> <<>>,          \* the second query's records
     q1 |-> <<>>,               \* the store as the first query read it
     q2 |-> <<>>,               \* the store as the second query read it
     new_summary |-> Empty,
     new_name |-> Empty]

\* AfterDetermine without the test for None.
AfterDetermineUnchecked(l, result) ==
    [next |-> "summarize",
     effects |-> <<<<"summarize_pair", l.entity.summary,
                     IF result.community = <<>> THEN Empty
                     ELSE result.community[1].summary>>>>]

\* AfterDetermine with the arguments of summarize_pair exchanged.
AfterDetermineSwapped(l, result) ==
    IF result.community = <<>>
    THEN [next |-> "returned", effects |-> <<>>]
    ELSE [next |-> "summarize",
          effects |-> <<<<"summarize_pair", result.community[1].summary, l.entity.summary>>>>]

\* Lines 224-227: None returns; a community is merged, starting with the
\* call of summarize_pair.
AfterDetermine(l, result) ==
    IF result.community = <<>>
    THEN [next |-> "returned", effects |-> <<>>]
    ELSE [next |-> "summarize",
          effects |-> <<<<"summarize_pair", l.entity.summary, result.community[1].summary>>>>]

\* AfterName without the test of is_new: the edge is always saved.
AfterNameAlwaysEdge(l, name) ==
    LET community == [l.community[1] EXCEPT !.summary = l.new_summary, !.name = name]
    IN  [next |-> "edge_save",
         community |-> community,
         effects |-> <<<<"edge_save",
             build_community_edges(<<l.entity>>, community, "now")[1]>>>>]

\* AfterName that never saves the membership edge.
AfterNameNeverEdge(l, name) ==
    [next |-> "embed",
     community |-> [l.community[1] EXCEPT !.summary = l.new_summary, !.name = name],
     effects |-> <<<<"generate_name_embedding", name>>>>]

\* AfterName with the community moved to the group of the joining entity.
AfterNameEntityGroup(l, name) ==
    LET community == [l.community[1] EXCEPT !.summary = l.new_summary, !.name = name,
                                            !.group_id = l.entity.group_id]
    IN  IF l.is_new
        THEN [next |-> "edge_save",
              community |-> community,
              effects |-> <<<<"edge_save",
                  build_community_edges(<<l.entity>>, community, "now")[1]>>>>]
        ELSE [next |-> "embed",
              community |-> community,
              effects |-> <<<<"generate_name_embedding", name>>>>]

\* Lines 230-237: the community takes the new summary and name; the edge is
\* saved first when the entity is new to the community.
AfterName(l, name) ==
    LET community == [l.community[1] EXCEPT !.summary = l.new_summary, !.name = name]
    IN  IF l.is_new
        THEN [next |-> "edge_save",
              community |-> community,
              effects |-> <<<<"edge_save",
                  build_community_edges(<<l.entity>>, community, "now")[1]>>>>]
        ELSE [next |-> "embed",
              community |-> community,
              effects |-> <<<<"generate_name_embedding", name>>>>]

\* Line 222: update_community is called and determine_entity_community
\* sends its first query.
U_Call(p) ==
    /\ pc[p] \in {"idle", "returned", "raised"}
    /\ ncalls[p] < MaxCalls
    /\ ncalls' = [ncalls EXCEPT ![p] = @ + 1]
    /\ pc' = [pc EXCEPT ![p] = "q1"]
    /\ loc' = [loc EXCEPT ![p] = [NoCall EXCEPT !.entity = EntityNode(target[p])]]
    /\ effects' = [effects EXCEPT ![p] = <<>>]
    /\ pre' = [pre EXCEPT ![p] = [communities |-> communities, hasMember |-> hasMember]]
    /\ UNCHANGED <<communities, hasMember, relatesTo, procs, target>>
    /\ UNCHANGED <<bvars, rvars>>

\* Lines 162-177: the first query returns; records[0] is any of its records.
U_Query1(p) ==
    /\ pc[p] = "q1"
    /\ LET n == loc[p].entity.uuid
           seen == [communities |-> communities, hasMember |-> hasMember,
                    relatesTo |-> relatesTo]
       IN  IF DirectCommunities(hasMember, communities, n) # {}
           THEN \E c \in DirectCommunities(hasMember, communities, n) :
                  LET result == AlreadyMember(communities[c])
                      after == AfterDetermine(loc[p], result)
                  IN  /\ loc' = [loc EXCEPT ![p] = [@ EXCEPT
                              !.determined = TRUE, !.direct = TRUE, !.q1 = seen,
                              !.community = result.community,
                              !.is_new = result.is_new]]
                      /\ pc' = [pc EXCEPT ![p] = after.next]
                      /\ effects' = [effects EXCEPT ![p] = @ \o after.effects]
           ELSE /\ loc' = [loc EXCEPT ![p].q1 = seen]
                /\ pc' = [pc EXCEPT ![p] = "q2"]
                /\ UNCHANGED effects
    /\ UNCHANGED <<communities, hasMember, relatesTo, procs, pre, ncalls, target>>
    /\ UNCHANGED <<bvars, rvars>>

\* Lines 180-216: the second query returns, in some order, and the mode is
\* chosen; then lines 224-227.
U_Query2(p) ==
    /\ pc[p] = "q2"
    /\ LET n == loc[p].entity.uuid
           seen == [communities |-> communities, hasMember |-> hasMember,
                    relatesTo |-> relatesTo]
       IN  \E recs \in NeighbourResults(hasMember, relatesTo, communities, n) :
             LET result == ModeCommunity(recs)
                 after == AfterDetermine(loc[p], result)
             IN  /\ loc' = [loc EXCEPT ![p] = [@ EXCEPT
                         !.determined = TRUE, !.records = recs, !.q2 = seen,
                         !.community = result.community,
                         !.is_new = result.is_new]]
                 /\ pc' = [pc EXCEPT ![p] = after.next]
                 /\ effects' = [effects EXCEPT ![p] = @ \o after.effects]
    /\ UNCHANGED <<communities, hasMember, relatesTo, procs, pre, ncalls, target>>
    /\ UNCHANGED <<bvars, rvars>>

\* Lines 227-228: summarize_pair returns; generate_summary_description is
\* called with its result.
U_Summarize(p) ==
    /\ pc[p] = "summarize"
    /\ \E s \in summarize_pair(loc[p].entity.summary, loc[p].community[1].summary) :
          /\ loc' = [loc EXCEPT ![p].new_summary = s]
          /\ effects' = [effects EXCEPT ![p] = Append(@, <<"generate_summary_description", s>>)]
    /\ pc' = [pc EXCEPT ![p] = "name"]
    /\ UNCHANGED <<communities, hasMember, relatesTo, procs, pre, ncalls, target>>
    /\ UNCHANGED <<bvars, rvars>>

\* Lines 228-237: generate_summary_description returns; the community object
\* is updated and the next call is made.
U_Name(p) ==
    /\ pc[p] = "name"
    /\ \E name \in generate_summary_description(loc[p].new_summary) :
          LET after == AfterName(loc[p], name)
          IN  /\ loc' = [loc EXCEPT ![p].new_name = name,
                                    ![p].community = <<after.community>>]
              /\ pc' = [pc EXCEPT ![p] = after.next]
              /\ effects' = [effects EXCEPT ![p] = @ \o after.effects]
    /\ UNCHANGED <<communities, hasMember, relatesTo, procs, pre, ncalls, target>>
    /\ UNCHANGED <<bvars, rvars>>

\* Lines 235-237: the edge is saved; generate_name_embedding is called.
U_EdgeSave(p) ==
    /\ pc[p] = "edge_save"
    /\ hasMember' = save_edge(hasMember, effects[p][Len(effects[p])][2])
    /\ effects' = [effects EXCEPT ![p] = Append(@, <<"generate_name_embedding", loc[p].new_name>>)]
    /\ pc' = [pc EXCEPT ![p] = "embed"]
    /\ UNCHANGED <<communities, relatesTo, procs, loc, pre, ncalls, target>>
    /\ UNCHANGED <<bvars, rvars>>

\* Lines 237-239: the embedding is set; community.save is called.
U_Embed(p) ==
    /\ pc[p] = "embed"
    /\ LET community == generate_name_embedding(loc[p].community[1])
       IN  /\ loc' = [loc EXCEPT ![p].community = <<community>>]
           /\ effects' = [effects EXCEPT ![p] = Append(@, <<"community_save", community>>)]
    /\ pc' = [pc EXCEPT ![p] = "save"]
    /\ UNCHANGED <<communities, hasMember, relatesTo, procs, pre, ncalls, target>>
    /\ UNCHANGED <<bvars, rvars>>

\* Line 239: the community node is saved and update_community returns.
U_Save(p) ==
    /\ pc[p] = "save"
    /\ communities' = save_community(communities, loc[p].community[1])
    /\ pc' = [pc EXCEPT ![p] = "returned"]
    /\ UNCHANGED <<hasMember, relatesTo, procs, loc, effects, pre, ncalls, target>>
    /\ UNCHANGED <<bvars, rvars>>

\* The external call a caller waits for raises: update_community has no
\* handler, so the exception leaves it.
U_Raise(p) ==
    /\ pc[p] \in {"q1", "q2", "summarize", "name", "edge_save", "embed", "save"}
    /\ pc' = [pc EXCEPT ![p] = "raised"]
    /\ UNCHANGED <<communities, hasMember, relatesTo, procs, loc, effects, pre, ncalls, target>>
    /\ UNCHANGED <<bvars, rvars>>

UNext ==
    \/ \E p \in procs : U_Call(p)
    \/ \E p \in procs : U_Query1(p)
    \/ \E p \in procs : U_Query2(p)
    \/ \E p \in procs : U_Summarize(p)
    \/ \E p \in procs : U_Name(p)
    \/ \E p \in procs : U_EdgeSave(p)
    \/ \E p \in procs : U_Embed(p)
    \/ \E p \in procs : U_Save(p)
    \/ \E p \in procs : U_Raise(p)

\* ---------------------------------------------------------- initial states
\* No update_community caller, an empty graph.
UIdle ==
    /\ communities = [u \in Range(CommUuids) |-> StoredCommunity(u)]
    /\ hasMember = [e \in Range(CommUuids) \X UEntities |-> 0]
    /\ relatesTo = [e \in UEntities \X UEntities |-> 0]
    /\ procs = {}
    /\ pc = [p \in Callers |-> "idle"]
    /\ loc = [p \in Callers |-> NoCall]
    /\ effects = [p \in Callers |-> <<>>]
    /\ pre = [p \in Callers |-> <<>>]
    /\ ncalls = [p \in Callers |-> 0]
    /\ target = [p \in Callers |-> Target]

\* What a neighbour of the target is: <<0, 0>> unrelated, else
\* <<number of RELATES_TO edges, community>> with community 0 for none.
NeighbourKinds ==
    {<<0, 0>>} \cup ((1..MaxMult) \X (0..Len(CommUuids)))

\* The stores update_community starts from: the communities Y and Z, each
\* entity a member of at most one of them by one edge, the target related to
\* each neighbour by 0..MaxMult edges, the odd ones from the target and the
\* even ones to it.  Neighbours are listed by kind: any other store of this
\* shape is one of these with the neighbours renamed.
UInit ==
    /\ communities = [u \in Range(CommUuids) |-> StoredCommunity(u)]
    /\ \E self \in 0..Len(CommUuids) :
       \E kind \in [UEntities \ {Target} -> NeighbourKinds] :
          /\ \A m \in UEntities \ {Target} :
                (m + 1) \in DOMAIN kind =>
                    kind[m][1] * 3 + kind[m][2] <= kind[m + 1][1] * 3 + kind[m + 1][2]
          /\ hasMember = [e \in Range(CommUuids) \X UEntities |->
                LET mine == IF e[2] = Target THEN self ELSE kind[e[2]][2]
                IN  IF mine # 0 /\ CommUuids[mine] = e[1] THEN 1 ELSE 0]
          /\ relatesTo = [e \in UEntities \X UEntities |->
                IF e[1] = Target /\ e[2] # Target THEN (kind[e[2]][1] + 1) \div 2
                ELSE IF e[2] = Target /\ e[1] # Target THEN kind[e[1]][1] \div 2
                ELSE 0]
    /\ procs = {"p1"}
    /\ pc = [p \in Callers |-> "idle"]
    /\ loc = [p \in Callers |-> NoCall]
    /\ effects = [p \in Callers |-> <<>>]
    /\ pre = [p \in Callers |-> <<>>]
    /\ ncalls = [p \in Callers |-> 0]
    /\ target = [p \in Callers |-> Target]

\* No full rebuild is under way.
RIdle == rpc = "idle"

Init == BInit /\ UIdle /\ RIdle

BNext ==
    \/ B_Project
    \/ B_Clusters
    \/ \E k \in 1..Len(tasks) : BC_Round(k)
    \/ \E k \in 1..Len(tasks) : \E i \in 1..Len(tasks[k].calls) : BC_Pair(k, i)
    \/ \E k \in 1..Len(tasks) : BC_Join(k)
    \/ \E k \in 1..Len(tasks) : BC_GatherRaise(k)
    \/ \E k \in 1..Len(tasks) : BC_Summary(k)
    \/ \E k \in 1..Len(tasks) : BC_Name(k)
    \/ B_Aggregate
    \/ B_GatherRaise
    \/ B_Destroy

Spec == Init /\ [][BNext]_vars

\* build_communities on an event loop that runs every task that can run.
SpecFair == Init /\ [][BNext]_vars /\ WF_vars(BNext)

InitUpdate == BInit /\ UInit /\ RIdle

SpecUpdate == InitUpdate /\ [][UNext]_vars

\* ------------------------------------------------------ the full rebuild
\* Lines 151-155: remove_communities runs its query, or the query raises.
\* It can be run again before the build starts.
R_Remove ==
    /\ rpc \in {"idle", "reset"}
    /\ bpc = "start"
    /\ \E ok \in BOOLEAN :
          IF ok
          THEN LET store == remove_communities(communities, hasMember)
               IN  /\ communities' = store.communities
                   /\ hasMember' = store.hasMember
                   /\ rpc' = "reset"
          ELSE /\ rpc' = "raised"
               /\ UNCHANGED <<communities, hasMember>>
    /\ UNCHANGED <<relatesTo, procs, pc, loc, effects, pre, ncalls, target>>
    /\ UNCHANGED bvars

\* The caller of build_communities saves the nodes and the edges it returned.
R_Persist ==
    /\ rpc = "reset"
    /\ bpc = "returned"
    /\ communities' = save_all_nodes(communities, aggregate.nodes)
    /\ hasMember' = save_all_edges(hasMember, aggregate.edges)
    /\ rpc' = "saved"
    /\ UNCHANGED <<relatesTo, procs, pc, loc, effects, pre, ncalls, target>>
    /\ UNCHANGED bvars

\* The stores a full rebuild starts from: the communities Y and Z of an
\* earlier build, entity 1 a member of Y, entity 2 of Y or of Z, entity 3 of
\* Z or of none.
UStale ==
    /\ communities = [u \in Range(CommUuids) |-> StoredCommunity(u)]
    /\ \E two \in Range(CommUuids) : \E three \in {"Z", "none"} :
          hasMember = [e \in Range(CommUuids) \X UEntities |->
                IF e = <<"Y", 1>> \/ e = <<two, 2>> \/ e = <<three, 3>> THEN 1 ELSE 0]
    /\ relatesTo = [e \in UEntities \X UEntities |-> 0]
    /\ procs = {}
    /\ pc = [p \in Callers |-> "idle"]
    /\ loc = [p \in Callers |-> NoCall]
    /\ effects = [p \in Callers |-> <<>>]
    /\ pre = [p \in Callers |-> <<>>]
    /\ ncalls = [p \in Callers |-> 0]
    /\ target = [p \in Callers |-> Target]

InitReset == BInit /\ UStale /\ RIdle

\* reset_communities, then build_communities, then the save of its result.
RNext ==
    \/ R_Remove
    \/ rpc = "reset" /\ BNext
    \/ R_Persist

SpecReset == InitReset /\ [][RNext]_vars

\* The stores two concurrent update_community callers start from: the
\* entities 1 and 2 in no community, entity 3 a member of Y and entity 4 of Y
\* or of Z, each of the entities 1 and 2 related to each of 3 and 4 by one
\* RELATES_TO edge or none.  The first caller's entity is 1, the second's is
\* 1 or 2, and each caller has one call left to make.
URace ==
    /\ communities = [u \in Range(CommUuids) |-> StoredCommunity(u)]
    /\ \E four \in Range(CommUuids) :
          hasMember = [e \in Range(CommUuids) \X UEntities |->
                IF e = <<"Y", 3>> \/ e = <<four, 4>> THEN 1 ELSE 0]
    /\ \E related \in SUBSET ({1, 2} \X {3, 4}) :
          relatesTo = [e \in UEntities \X UEntities |-> IF e \in related THEN 1 ELSE 0]
    /\ procs = {"p1", "p2"}
    /\ \E second \in {1, 2} : target = [p \in Callers |-> IF p = "p1" THEN 1 ELSE second]
    /\ pc = [p \in Callers |-> "idle"]
    /\ loc = [p \in Callers |-> NoCall]
    /\ effects = [p \in Callers |-> <<>>]
    /\ pre = [p \in Callers |-> <<>>]
    /\ ncalls = [p \in Callers |-> MaxCalls - 1]

InitRace == BInit /\ URace /\ RIdle

\* Two update_community callers, their steps interleaved.
SpecRace == InitRace /\ [][UNext]_vars

\* ---------------------------------------------------------------- claims
\* The summaries a.. of the first n entities, in input order.
InputSummaries(n) == [i \in 1..n |-> <<Letter[i]>>]

\* C1: whenever build_community_projection has succeeded and
\* build_communities has finished (returned or raised), destroy_projection
\* has been called exactly once.
C1_DestroyedExactlyOnce ==
    (projBuilt /\ bpc \in {"returned", "raised"}) => destroyCalls = 1

\* What C2 says of one round that began with the sequence input: the odd
\* element set aside, the pairs handed to summarize_pair.
RoundAsClaimed(input, odd_one_out, pairs) ==
    LET L0 == Len(input)
        L == IF L0 % 2 = 1 THEN L0 - 1 ELSE L0
        half == L \div 2
    IN  /\ L0 > 1
        /\ odd_one_out = IF L0 % 2 = 1 THEN <<input[L0]>> ELSE <<>>
        /\ Len(pairs) = half
        /\ \A i \in 1..half : pairs[i] = <<input[i], input[half + i]>>

\* C2: in every round of every build_community task, started or finished,
\* an odd length sets the positional last element aside, the pairs are
\* exactly (element i, element L/2+i) for i in 0..L/2-1, the result of pair
\* i stands at index i of the new sequence, and the element set aside is
\* appended at its end.
C2_FirstHalfWithSecondHalf ==
    \A k \in 1..Len(tasks) :
        LET t == tasks[k]
        IN  /\ t.calls # <<>> =>
                RoundAsClaimed(t.input, t.odd_one_out,
                               [i \in 1..Len(t.calls) |-> t.calls[i].pair])
            /\ \A r \in 1..Len(t.rounds) :
                LET round == t.rounds[r]
                IN  /\ RoundAsClaimed(round.input, round.odd_one_out, round.pairs)
                    /\ Len(round.output) = Len(round.pairs) + Len(round.odd_one_out)
                    /\ \A i \in 1..Len(round.pairs) :
                          round.output[i] \in
                              {<<"pair", round.pairs[i][1], round.pairs[i][2]>>, Empty}
                    /\ round.odd_one_out # <<>> =>
                          round.output[Len(round.output)] = round.odd_one_out[1]

\* C2's case: a finished round over five summaries, two pairs merged by the
\* language model and the fifth summary carried.
C2_Witness ==
    \E k \in 1..Len(tasks) :
        /\ Len(tasks[k].rounds) >= 1
        /\ tasks[k].rounds[1].input = InputSummaries(5)
        /\ tasks[k].rounds[1].output =
              << <<"pair", <<"a">>, <<"c">>>>, <<"pair", <<"b">>, <<"d">>>>, <<"e">> >>

\* The tasks whose cluster has the summaries [a,b,c,d,e].
FiveTasks == {k \in 1..Len(tasks) :
                [i \in 1..Len(tasks[k].cluster) |-> tasks[k].cluster[i].summary]
                    = InputSummaries(5)}

\* The rounds 2 and 3 of the schedule of [a,b,c,d,e], which follow from
\* round 1's output [m1, m2, e], and the number of rounds.
RestOfSchedule(t) ==
    /\ Len(t.rounds) <= 3
    /\ t.pc \in {"naming", "done"} => Len(t.rounds) = 3
    /\ Len(t.rounds) >= 2 =>
          LET m1 == t.rounds[1].output[1]
              m2 == t.rounds[1].output[2]
              r2 == t.rounds[2]
          IN  /\ r2.input = <<m1, m2, <<"e">>>>
              /\ r2.odd_one_out = << <<"e">> >>
              /\ r2.pairs = << <<m1, m2>> >>
              /\ r2.results[1] \in {<<"pair", m1, m2>>, Empty}
              /\ r2.output = <<r2.results[1], <<"e">>>>
    /\ Len(t.rounds) >= 3 =>
          LET m3 == t.rounds[2].output[1]
              r3 == t.rounds[3]
          IN  /\ r3.input = <<m3, <<"e">>>>
              /\ r3.odd_one_out = <<>>
              /\ r3.pairs = << <<m3, <<"e">>>> >>
              /\ r3.results[1] \in {<<"pair", m3, <<"e">>>>, Empty}
              /\ r3.output = <<r3.results[1]>>
              /\ t.pc \in {"naming", "done"} => t.summary = r3.results[1]
              /\ t.pc = "done" => t.node[1].summary = r3.results[1]

\* C3 as stated: for the summaries [a,b,c,d,e], round 1 carries e and
\* summarizes the pairs (a,d) and (b,c) into [m1, m2, e]; round 2 carries e
\* and summarizes (m1, m2) into [m3, e]; round 3 summarizes (m3, e) into the
\* community summary.
C3_Original ==
    \A k \in FiveTasks :
        LET t == tasks[k]
        IN  /\ Len(t.rounds) >= 1 =>
                  /\ t.rounds[1].odd_one_out = << <<"e">> >>
                  /\ t.rounds[1].pairs = << <<<<"a">>, <<"d">>>>, <<<<"b">>, <<"c">>>> >>
                  /\ t.rounds[1].output = <<t.rounds[1].results[1],
                                            t.rounds[1].results[2], <<"e">>>>
            /\ RestOfSchedule(t)

\* C3 amended: for the summaries [a,b,c,d,e], round 1 carries e and
\* summarizes the pairs (a,c) and (b,d) into [m1, m2, e]; round 2 carries e
\* and summarizes (m1, m2) into [m3, e]; round 3 summarizes (m3, e) into the
\* community summary; there is no other round.
C3_Schedule ==
    \A k \in FiveTasks :
        LET t == tasks[k]
        IN  /\ Len(t.rounds) >= 1 =>
                  /\ t.rounds[1].odd_one_out = << <<"e">> >>
                  /\ t.rounds[1].pairs = << <<<<"a">>, <<"c">>>>, <<<<"b">>, <<"d">>>> >>
                  /\ t.rounds[1].results[1] \in {<<"pair", <<"a">>, <<"c">>>>, Empty}
                  /\ t.rounds[1].results[2] \in {<<"pair", <<"b">>, <<"d">>>>, Empty}
                  /\ t.rounds[1].output = <<t.rounds[1].results[1],
                                            t.rounds[1].results[2], <<"e">>>>
            /\ RestOfSchedule(t)

\* C3's case: build_community has returned the community of [a,b,c,d,e],
\* its summary the language model's merge of the three rounds.
C3_Witness ==
    \E k \in FiveTasks :
        /\ tasks[k].pc = "done"
        /\ tasks[k].node[1].summary =
              <<"pair",
                <<"pair", <<"pair", <<"a">>, <<"c">>>>, <<"pair", <<"b">>, <<"d">>>>>>,
                <<"e">>>>

\* C4: a build_community task over one entity starts no summarize_pair call,
\* calls generate_summary_description once, with that entity's summary, and
\* returns a community whose summary is that entity's summary.
C4_SingleEntity ==
    \A k \in 1..Len(tasks) :
        LET t == tasks[k]
        IN  Len(t.cluster) = 1 =>
                /\ t.started = 0
                /\ t.calls = <<>>
                /\ t.rounds = <<>>
                /\ t.pc \in {"loop", "naming", "done", "failed"}
                /\ t.pc = "loop" => t.names = <<>>
                /\ t.pc # "loop" => t.names = <<t.cluster[1].summary>>
                /\ t.pc = "done" =>
                      /\ t.node[1].summary = t.cluster[1].summary
                      /\ t.node[1].name \in {<<"name", t.cluster[1].summary>>, Empty}

\* C4's case: build_community has returned the community of a one-entity
\* cluster.
C4_Witness ==
    \E k \in 1..Len(tasks) :
        /\ Len(tasks[k].cluster) = 1
        /\ tasks[k].pc = "done"
        /\ tasks[k].node[1].summary = tasks[k].cluster[1].summary
        /\ tasks[k].names = <<tasks[k].cluster[1].summary>>

\* The votes for the community uuid among the records, and where its first
\* record stands.
VoteCount(recs, uuid) == Cardinality({i \in 1..Len(recs) : recs[i].uuid = uuid})
FirstRecord(recs, uuid) ==
    CHOOSE i \in 1..Len(recs) :
        recs[i].uuid = uuid /\ \A j \in 1..(i - 1) : recs[j].uuid # uuid
VotedUuids(recs) == {recs[i].uuid : i \in 1..Len(recs)}

\* The entities related to n by at least one RELATES_TO edge, in either
\* direction, other than n.
NeighboursOf(rel, n) == {m \in UEntities \ {n} : Rel(rel, m, n) > 0}

\* The calls in which determine_entity_community has read the HAS_MEMBER
\* edges of its entity, and those in which it went on to count votes.
AskedDirect == {p \in procs : loc[p].q1 # <<>>}
AskedNeighbours == {p \in procs : loc[p].q2 # <<>>}

\* C5: when the entity has a HAS_MEMBER edge from some community, the result
\* of determine_entity_community is one such community with is_new false,
\* and the neighbour query is not made, however the neighbours would vote.
C5_DirectMembershipWins ==
    \A p \in AskedDirect :
        LET l == loc[p]
            direct == DirectCommunities(l.q1.hasMember, l.q1.communities, l.entity.uuid)
        IN  direct # {} =>
                /\ l.determined
                /\ l.community # <<>>
                /\ l.community[1].uuid \in direct
                /\ l.is_new = FALSE
                /\ l.records = <<>>
                /\ l.q2 = <<>>
                /\ pc[p] = "summarize" =>
                      l.community[1] = l.q1.communities[l.community[1].uuid]

\* C5's case: the entity is a member of Y while its neighbours would give Z
\* two or more votes and Y none; the result is (Y, false).
C5_Witness ==
    \E p \in AskedDirect :
        /\ loc[p].determined
        /\ loc[p].community # <<>>
        /\ loc[p].community[1].uuid = "Y"
        /\ loc[p].is_new = FALSE
        /\ NeighbourRecords(loc[p].q1.hasMember, loc[p].q1.relatesTo,
                            loc[p].q1.communities, loc[p].entity.uuid, "Z") >= 2
        /\ NeighbourRecords(loc[p].q1.hasMember, loc[p].q1.relatesTo,
                            loc[p].q1.communities, loc[p].entity.uuid, "Y") = 0

C7_OneVotePerNeighbour ==
    \A p \in AskedNeighbours :
        LET l == loc[p]
        IN  \A c \in DOMAIN l.q2.communities :
                VoteCount(l.records, c) =
                    Cardinality({m \in NeighboursOf(l.q2.relatesTo, l.entity.uuid) :
                                    l.q2.hasMember[<<c, m>>] > 0})

\* C8: with no direct membership and no neighbour that is a member of a
\* community (no neighbour at all included), determine_entity_community
\* returns (None, false) and does not raise.
C8_NoVotesNoCommunity ==
    \A p \in AskedNeighbours :
        LET l == loc[p]
            n == l.entity.uuid
        IN  (/\ DirectCommunities(l.q1.hasMember, l.q1.communities, n) = {}
             /\ \A m \in NeighboursOf(l.q2.relatesTo, n) :
                   \A c \in DOMAIN l.q2.communities : l.q2.hasMember[<<c, m>>] = 0)
            => /\ l.determined
               /\ l.community = <<>>
               /\ l.is_new = FALSE
               /\ pc[p] = "returned"

\* C8's case: the entity has neighbours, none of them in a community, and
\* determine_entity_community has returned (None, false).
C8_Witness ==
    \E p \in AskedNeighbours :
        /\ loc[p].determined
        /\ loc[p].community = <<>>
        /\ loc[p].is_new = FALSE
        /\ NeighboursOf(relatesTo, loc[p].entity.uuid) # {}
        /\ loc[p].records = <<>>

\* The entries of a call's effects that are calls of the operation op.
Made(p, op) == {i \in 1..Len(effects[p]) : effects[p][i][1] = op}

\* C9: an update_community call whose assignment is None returns normally,
\* having made no summarize_pair, naming, embedding or save call, and the
\* store is as the call found it.
C9_NoneIsNoOp ==
    \A p \in procs :
        (loc[p].determined /\ loc[p].community = <<>>) =>
            /\ pc[p] = "returned"
            /\ effects[p] = <<>>
            /\ communities = pre[p].communities
            /\ hasMember = pre[p].hasMember

\* C9's case: a call on an entity without neighbours has returned with the
\* assignment None.
C9_Witness ==
    \E p \in procs :
        /\ pc[p] = "returned"
        /\ loc[p].determined
        /\ loc[p].community = <<>>
        /\ NeighboursOf(relatesTo, loc[p].entity.uuid) = {}

\* C10: an update_community call that has returned with the assignment
\* (C, is_new) has regenerated the embedding once and saved C once; with
\* is_new it has saved exactly one membership edge, from C to the entity,
\* and without is_new none.
C10_OneEdgeOneEmbeddingOneSave ==
    \A p \in procs :
        (pc[p] = "returned" /\ loc[p].community # <<>>) =>
            LET l == loc[p]
                C == l.community[1].uuid
                edge_saves == Made(p, "edge_save")
            IN  /\ Cardinality(Made(p, "generate_name_embedding")) = 1
                /\ Cardinality(Made(p, "community_save")) = 1
                /\ \A i \in Made(p, "community_save") :
                      /\ effects[p][i][2].uuid = C
                      /\ communities[C] = effects[p][i][2]
                /\ l.is_new =>
                      /\ Cardinality(edge_saves) = 1
                      /\ \A i \in edge_saves :
                            /\ effects[p][i][2].source_uuid = C
                            /\ effects[p][i][2].target_uuid = l.entity.uuid
                      /\ hasMember = [pre[p].hasMember EXCEPT ![<<C, l.entity.uuid>>] = @ + 1]
                /\ ~l.is_new =>
                      /\ edge_saves = {}
                      /\ hasMember = pre[p].hasMember

\* C10's case: a call has returned after joining its entity to a community:
\* the entity had no HAS_MEMBER edge and has one now.
C10_Witness ==
    \E p \in procs :
        /\ pc[p] = "returned"
        /\ loc[p].community # <<>>
        /\ loc[p].is_new
        /\ pre[p].hasMember[<<loc[p].community[1].uuid, loc[p].entity.uuid>>] = 0
        /\ hasMember[<<loc[p].community[1].uuid, loc[p].entity.uuid>>] = 1

\* The HAS_MEMBER edges that point to the entity e.
MemberEdges(e) ==
    SumOver(DOMAIN communities, [c \in DOMAIN communities |-> hasMember[<<c, e>>]])

\* C11: from a store in which every entity has HAS_MEMBER edges from at most
\* one community, under every interleaving of update_community calls every
\* entity has at most one HAS_MEMBER edge, hence edges from at most one
\* community.
C11_AtMostOneCommunity ==
    \A e \in UEntities : MemberEdges(e) <= 1

\* C12: when the projection build, the clustering and every build_community
\* call succeeded, a failure of destroy_projection is not escalated:
\* build_communities does not raise once destroy_projection was called.
C12_DestroyFailureNotEscalated ==
    destroyCalls >= 1 => bpc # "raised"

\* C13: build_community given a cluster with zero entities does not raise,
\* and build_communities does not raise because of an empty cluster.
C13_EmptyClusterNoError ==
    \A k \in 1..Len(tasks) :
        Len(tasks[k].cluster) = 0 => tasks[k].pc # "failed"

\* The store as determine_entity_community of caller p read it when it found
\* the community it returned.
StoreRead(p) == IF loc[p].direct THEN loc[p].q1 ELSE loc[p].q2

\* C14: the community node an update_community call saves is the node it read
\* from the store with nothing but summary, name and name_embedding changed
\* (uuid, group_id and created_at are the same), and so every stored
\* community keeps the uuid, group_id and created_at it was created with,
\* whatever the group_id of the entities that join it.
C14_IdentityFieldsKept ==
    /\ \A p \in procs : \A i \in 1..Len(effects[p]) :
          effects[p][i][1] = "community_save" =>
              LET node == effects[p][i][2]
              IN  /\ node.uuid \in DOMAIN StoreRead(p).communities
                  /\ node = [StoreRead(p).communities[node.uuid] EXCEPT
                                !.summary = node.summary,
                                !.name = node.name,
                                !.name_embedding = node.name_embedding]
    /\ DOMAIN communities = Range(CommUuids)
    /\ \A u \in DOMAIN communities :
          /\ communities[u].uuid = u
          /\ communities[u].group_id = StoredCommunity(u).group_id
          /\ communities[u].created_at = StoredCommunity(u).created_at

\* An entity of group g1 has joined the community Z of group g2, and Z was
\* saved with a new summary.
C14_Witness ==
    /\ pc["p1"] = "returned"
    /\ loc["p1"].is_new
    /\ loc["p1"].entity.group_id = "g1"
    /\ hasMember[<<"Z", loc["p1"].entity.uuid>>] = 1
    /\ communities["Z"].group_id = "g2"
    /\ communities["Z"].summary = <<"pair", loc["p1"].entity.summary, <<"z">>>>

\* C15: after remove_communities the store holds no community node and no
\* HAS_MEMBER edge, whatever it held before, and remove_communities run
\* again leaves that store as it is; after the reset, build_communities and
\* the save of its result, every HAS_MEMBER edge of the store has as source a
\* community node that build returned, none a community deleted by the reset.
C15_ResetThenBuild ==
    /\ rpc = "reset" =>
          /\ DOMAIN communities = {}
          /\ \A k \in DOMAIN hasMember : hasMember[k] = 0
          /\ remove_communities(communities, hasMember) =
                 [communities |-> communities, hasMember |-> hasMember]
    /\ rpc = "saved" =>
          /\ DOMAIN communities = {aggregate.nodes[i].uuid : i \in 1..Len(aggregate.nodes)}
          /\ \A k \in DOMAIN hasMember : hasMember[k] > 0 =>
                /\ \E i \in 1..Len(aggregate.nodes) : aggregate.nodes[i].uuid = k[1]
                /\ k[1] \notin Range(CommUuids)

\* The store had edges from Y and Z; after the reset, a build of two
\* communities and the save, entity 1 is a member of the new community n1
\* and some entity of n2.
C15_Witness ==
    /\ rpc = "saved"
    /\ Len(aggregate.nodes) = 2
    /\ <<"n1", 1>> \in DOMAIN hasMember /\ hasMember[<<"n1", 1>>] = 1
    /\ \E e \in 2..MaxEntities : <<"n2", e>> \in DOMAIN hasMember /\ hasMember[<<"n2", e>>] = 1

\* Both callers have returned from update_community calls for two different
\* entities new to the same community c, and both calls passed the summary c
\* had before either call to summarize_pair.
BothReadPreUpdate(c) ==
    /\ pc["p1"] = "returned" /\ pc["p2"] = "returned"
    /\ loc["p1"].entity.uuid # loc["p2"].entity.uuid
    /\ \A p \in {"p1", "p2"} :
          /\ loc[p].community # <<>>
          /\ loc[p].community[1].uuid = c
          /\ loc[p].is_new
          /\ effects[p][1] =
               <<"summarize_pair", loc[p].entity.summary, StoredCommunity(c).summary>>
          /\ effects[p][Len(effects[p])][1] = "community_save"

\* C16: when two update_community calls for two different entities resolve
\* to the same community and both read its pre-update summary, the summary
\* stored in the end is a merge of the pre-update summary with the summary of
\* only one of the two entities, and both membership edges are in the store.
C16_LostUpdate ==
    \A c \in Range(CommUuids) :
        BothReadPreUpdate(c) =>
            /\ \E p \in {"p1", "p2"} :
                  communities[c].summary \in
                      summarize_pair(loc[p].entity.summary, StoredCommunity(c).summary)
            /\ \A p \in {"p1", "p2"} : hasMember[<<c, loc[p].entity.uuid>>] = 1

\* The entities 1 and 2 have both joined Y; the stored summary of Y merges
\* the old summary with that of entity 1 and holds nothing of entity 2.
C16_Witness ==
    /\ BothReadPreUpdate("Y")
    /\ communities["Y"].summary = <<"pair", <<"a">>, <<"y">>>>
    /\ loc["p2"].new_summary = <<"pair", <<"b">>, <<"y">>>>
    /\ hasMember[<<"Y", 1>>] = 1 /\ hasMember[<<"Y", 2>>] = 1

\* Some summarize_pair call of the task's current round has raised.
RoundFailed(t) == \E i \in 1..Len(t.calls) : t.calls[i].st = "failed"

\* C17: in every build_community task a round is joined only when every
\* summarize_pair call of the round has returned, and the calls of the next
\* round are started only when no call of an earlier round is outstanding;
\* once a call of a round has raised, the task starts no further call, joins
\* no round, uses none of the round's results and constructs no node or edge.
C17_RoundBarrier ==
    [][\A k \in 1..Len(tasks) : k \in 1..Len(tasks') =>
          /\ Len(tasks'[k].rounds) > Len(tasks[k].rounds) =>
                \A i \in 1..Len(tasks[k].calls) : tasks[k].calls[i].st = "done"
          /\ tasks'[k].started > tasks[k].started => tasks[k].calls = <<>>
          /\ RoundFailed(tasks[k]) =>
                /\ RoundFailed(tasks'[k])
                /\ tasks'[k].started = tasks[k].started
                /\ tasks'[k].rounds = tasks[k].rounds
                /\ tasks'[k].summaries = tasks[k].summaries
                /\ tasks'[k].pc \in {"gather", "failed"}
                /\ tasks'[k].node = <<>> /\ tasks'[k].edges = <<>>]_vars

\* A task whose first round of two calls was joined, and whose second round
\* has failed.
C17_Witness ==
    \E k \in 1..Len(tasks) :
        /\ tasks[k].pc = "failed"
        /\ Len(tasks[k].rounds) = 1
        /\ Len(tasks[k].rounds[1].pairs) = 2
        /\ RoundFailed(tasks[k])
        /\ tasks[k].node = <<>> /\ tasks[k].edges = <<>>

\* Every pair handed to summarize_pair by the task so far, round after round.
AllPairs(t) == Flatten([r \in 1..Len(t.rounds) |-> t.rounds[r].pairs])

\* In how many summarize_pair calls of the task the text s was an argument
\* (a call of (s, s) counts twice).
Uses(t, s) ==
    Cardinality({a \in (1..Len(AllPairs(t))) \X {1, 2} : AllPairs(t)[a[1]][a[2]] = s})

\* How often the text s occurs in a merged text.
RECURSIVE LeafCount(_, _)
LeafCount(text, s) ==
    IF text = s THEN 1
    ELSE IF Len(text) = 3
         THEN LeafCount(text[2], s) + LeafCount(text[3], s)
         ELSE 0

\* The task has left the loop and read summaries[0].
Reduced(t) == t.names # <<>>

\* No summarize_pair call of the task returned the empty string.
NoEmptyResult(t) ==
    \A r \in 1..Len(t.rounds) : \A i \in 1..Len(t.rounds[r].results) :
        t.rounds[r].results[i] # Empty

C18_Safe ==
    \A k \in 1..Len(tasks) :
        LET t == tasks[k]
            n == Len(t.cluster)
        IN  /\ \A r \in 1..Len(t.rounds) :
                  Len(t.rounds[r].output) < Len(t.rounds[r].input)
            /\ (Reduced(t) /\ n >= 1) =>
                  /\ Len(t.summaries) = 1
                  /\ t.started = n - 1
                  /\ Len(AllPairs(t)) = n - 1
                  /\ n = 1 => t.summary = t.cluster[1].summary
                  /\ n >= 2 => \A i \in 1..n : Uses(t, t.cluster[i].summary) = 1
                  /\ NoEmptyResult(t) =>
                        \A i \in 1..n : LeafCount(t.summary, t.cluster[i].summary) = 1

RECURSIVE Pow2(_)
Pow2(k) == IF k = 0 THEN 1 ELSE 2 * Pow2(k - 1)

\* ceil(log2(n)) for n >= 1: the least k with 2^k >= n.
CeilLog2(n) == CHOOSE k \in 0..n : Pow2(k) >= n /\ \A j \in 0..(k - 1) : Pow2(j) < n

\* C19: each round of build_community takes a list of m summaries to one of
\* ceil(m / 2), starting from the output of the round before, and for a
\* cluster of n >= 1 entities the loop is left after exactly ceil(log2(n))
\* rounds.
C19_LogarithmicRounds ==
    \A k \in 1..Len(tasks) :
        LET t == tasks[k]
            n == Len(t.cluster)
        IN  /\ \A r \in 1..Len(t.rounds) :
                  /\ Len(t.rounds[r].output) = (Len(t.rounds[r].input) + 1) \div 2
                  /\ Len(t.rounds[r].input) =
                        IF r = 1 THEN n ELSE Len(t.rounds[r - 1].output)
            /\ (Reduced(t) /\ n >= 1) => Len(t.rounds) = CeilLog2(n)

\* A cluster of five entities reduced in three rounds: 5 -> 3 -> 2 -> 1.
C19_Witness ==
    \E k \in 1..Len(tasks) :
        /\ Len(tasks[k].cluster) = 5
        /\ Reduced(tasks[k])
        /\ Len(tasks[k].rounds) = 3
        /\ Len(tasks[k].rounds[1].output) = 3
        /\ Len(tasks[k].rounds[2].output) = 2
        /\ Len(tasks[k].rounds[3].output) = 1

\* The calls update_community of caller p makes, in order, given what it has
\* read and been returned so far.
ExpectedEffects(p) ==
    LET l == loc[p]
        c == l.community[1].uuid
        read == StoreRead(p).communities[c]
        written == [read EXCEPT !.summary = l.new_summary, !.name = l.new_name]
    IN  <<<<"summarize_pair", l.entity.summary, read.summary>>,
          <<"generate_summary_description", l.new_summary>>>>
        \o (IF l.is_new
            THEN <<<<"edge_save", build_community_edges(<<l.entity>>, written, "now")[1]>>>>
            ELSE <<>>)
        \o <<<<"generate_name_embedding", l.new_name>>,
             <<"community_save", [written EXCEPT !.name_embedding = <<"emb", l.new_name>>]>>>>

\* The last call caller p made.
LastEffect(p) == effects[p][Len(effects[p])]

\* C20: the calls of an update_community call that resolved to a community
\* are, in this order: summarize_pair(entity.summary, community.summary),
\* generate_summary_description of the merged summary, the save of the
\* membership edge if and only if is_new, generate_name_embedding for the
\* new name, the save of the community.  The community written carries the
\* embedding of the name written with it, and when the embedding call of a
\* newly assigned entity raises, the membership edge is in the store while
\* the stored community is as it was before the call.
C20_EffectOrder ==
    /\ \A p \in procs :
          (loc[p].determined /\ loc[p].community # <<>>) =>
              /\ Len(effects[p]) \in 1..Len(ExpectedEffects(p))
              /\ \A i \in 1..Len(effects[p]) : effects[p][i] = ExpectedEffects(p)[i]
              /\ (pc[p] = "raised" /\ loc[p].is_new
                      /\ LastEffect(p)[1] = "generate_name_embedding") =>
                    LET key == <<loc[p].community[1].uuid, loc[p].entity.uuid>>
                    IN  /\ hasMember[key] = pre[p].hasMember[key] + 1
                        /\ communities = pre[p].communities
    /\ \A u \in DOMAIN communities :
          communities[u].name_embedding = <<"emb", communities[u].name>>

\* The embedding call of an entity newly assigned to Y has raised after the
\* edge was saved: Y is stored with its old summary and name.
C20_Witness ==
    /\ pc["p1"] = "raised"
    /\ loc["p1"].is_new
    /\ loc["p1"].community[1].uuid = "Y"
    /\ Len(effects["p1"]) = 4
    /\ LastEffect("p1")[1] = "generate_name_embedding"
    /\ hasMember[<<"Y", 1>>] = 1
    /\ loc["p1"].new_summary = <<"pair", <<"a">>, <<"y">>>>
    /\ communities["Y"] = StoredCommunity("Y")

====
